---------------------------- MODULE Spec2Model ----------------------------
(***************************************************************************)
(* Mergington High activity API (src/src/app.py, models.py, db.py).        *)
(*                                                                         *)
(* The store is the two tables of models.py.  Every process runs           *)
(* on_startup and then serves signup / unregister requests, each request   *)
(* on a session of its own (get_db).  A request is split where the code    *)
(* lets another session in: between its reads-and-checks and its commit.   *)
(***************************************************************************)
EXTENDS Integers, Sequences, FiniteSets, TLC

VARIABLES
    activities,     \* table "activities": rows in id order
    participants,   \* table "participants": rows in id order
    proc,           \* per process: position in on_startup / serving
    session         \* per process: the request in flight and its session

vars == <<activities, participants, proc, session>>

----------------------------------------------------------------------------
(* Bounds of the model.                                                    *)

\* Number of participant ids the model lets the store hand out beyond the
\* ids of the students who never leave (those outside Emails).
MaxNew == 2

\* Number of earlier students signed up to BatchActivity by SignupBatch.
BatchSize == 8

(* The processes that share the store. *)
Procs == {"p1", "p2"}

(* Request inputs. *)
ActivityNames == {"Chess Club", "Math Club", "Unknown Club"}

Emails == {"james@mergington.edu", "new@mergington.edu"}

(* Students of the earlier signups of SignupBatch, none of them in Emails. *)
BatchEmails ==
    <<"s1@mergington.edu", "s2@mergington.edu", "s3@mergington.edu",
      "s4@mergington.edu", "s5@mergington.edu", "s6@mergington.edu",
      "s7@mergington.edu", "s8@mergington.edu", "s9@mergington.edu">>

BatchActivity == "Math Club"

----------------------------------------------------------------------------
(* app.py: the fixtures, in dict order.                                    *)

initial_activities ==
    << [name |-> "Chess Club",
        description |-> "Learn strategies and compete in chess tournaments",
        schedule |-> "Fridays, 3:30 PM - 5:00 PM",
        max_participants |-> 12,
        participants |-> <<"michael@mergington.edu", "daniel@mergington.edu">>],
       [name |-> "Programming Class",
        description |-> "Learn programming fundamentals and build software projects",
        schedule |-> "Tuesdays and Thursdays, 3:30 PM - 4:30 PM",
        max_participants |-> 20,
        participants |-> <<"emma@mergington.edu", "sophia@mergington.edu">>],
       [name |-> "Gym Class",
        description |-> "Physical education and sports activities",
        schedule |-> "Mondays, Wednesdays, Fridays, 2:00 PM - 3:00 PM",
        max_participants |-> 30,
        participants |-> <<"john@mergington.edu", "olivia@mergington.edu">>],
       [name |-> "Soccer Team",
        description |-> "Join the school soccer team and compete in matches",
        schedule |-> "Tuesdays and Thursdays, 4:00 PM - 5:30 PM",
        max_participants |-> 22,
        participants |-> <<"liam@mergington.edu", "noah@mergington.edu">>],
       [name |-> "Basketball Team",
        description |-> "Practice and play basketball with the school team",
        schedule |-> "Wednesdays and Fridays, 3:30 PM - 5:00 PM",
        max_participants |-> 15,
        participants |-> <<"ava@mergington.edu", "mia@mergington.edu">>],
       [name |-> "Art Club",
        description |-> "Explore your creativity through painting and drawing",
        schedule |-> "Thursdays, 3:30 PM - 5:00 PM",
        max_participants |-> 15,
        participants |-> <<"amelia@mergington.edu", "harper@mergington.edu">>],
       [name |-> "Drama Club",
        description |-> "Act, direct, and produce plays and performances",
        schedule |-> "Mondays and Wednesdays, 4:00 PM - 5:30 PM",
        max_participants |-> 20,
        participants |-> <<"ella@mergington.edu", "scarlett@mergington.edu">>],
       [name |-> "Math Club",
        description |-> "Solve challenging problems and participate in math competitions",
        schedule |-> "Tuesdays, 3:30 PM - 4:30 PM",
        max_participants |-> 10,
        participants |-> <<"james@mergington.edu", "benjamin@mergington.edu">>],
       [name |-> "Debate Team",
        description |-> "Develop public speaking and argumentation skills",
        schedule |-> "Fridays, 4:00 PM - 5:30 PM",
        max_participants |-> 12,
        participants |-> <<"charlotte@mergington.edu", "henry@mergington.edu">>] >>

----------------------------------------------------------------------------
(* models.py: rows and the queries the handlers run.                       *)

(* Activity(name, description, schedule, max_participants) with its id. *)
Activity(id, meta) ==
    [id |-> id, name |-> meta.name, description |-> meta.description,
     schedule |-> meta.schedule, max_participants |-> meta.max_participants]

(* Participant(email, activity_id) with its id. *)
Participant(id, email, activity_id) ==
    [id |-> id, email |-> email, activity_id |-> activity_id]

(* The id an INTEGER PRIMARY KEY column gives a new row: one past the
   largest id of the table. *)
NextId(rows) ==
    IF rows = <<>> THEN 1
    ELSE 1 + CHOOSE m \in {rows[i].id : i \in DOMAIN rows} :
                 \A i \in DOMAIN rows : rows[i].id <= m

(* Query(...).first(): the first row, or None. *)
None == [id |-> 0]

first(rows) == IF rows = <<>> THEN None ELSE Head(rows)

(* db.query(Activity).filter(Activity.name == activity_name).first() *)
find_activity(acts, activity_name) ==
    first(SelectSeq(acts, LAMBDA a : a.name = activity_name))

(* activity.participants: the rows of the relationship, in id order. *)
activity_participants(parts, activity_id) ==
    SelectSeq(parts, LAMBDA p : p.activity_id = activity_id)

(* db.query(Participant).filter(activity_id == ..., email == ...).first() *)
find_participant(parts, activity_id, email) ==
    first(SelectSeq(parts, LAMBDA p : p.activity_id = activity_id /\ p.email = email))

(* The largest id among the rows of students outside Emails, whom no
   request of the model removes. *)
SettledId(rows) ==
    LET ids == {rows[i].id : i \in {j \in DOMAIN rows : rows[j].email \notin Emails}}
    IN  IF ids = {} THEN 0 ELSE CHOOSE m \in ids : \A k \in ids : k <= m

(* Variant: the emails of the relationship from the last row to the first. *)
participant_emails_reversed(parts, activity_id) ==
    LET members == activity_participants(parts, activity_id)
    IN  [i \in DOMAIN members |-> members[Len(members) + 1 - i].email]

(* activity_to_dict, line 129: [p.email for p in activity.participants] *)
participant_emails(parts, activity_id) ==
    LET members == activity_participants(parts, activity_id)
    IN  [i \in DOMAIN members |-> members[i].email]

(* activity_to_dict, lines 123-131: the entry of one activity. *)
activity_to_dict(parts, activity) ==
    [description |-> activity.description,
     schedule |-> activity.schedule,
     max_participants |-> activity.max_participants,
     participants |-> participant_emails(parts, activity.id)]

(* get_activities, lines 141-145: merged.update(...) activity by activity,
   so a name holds the entry of the last activity that has it. *)
get_activities(acts, parts) ==
    [n \in {acts[i].name : i \in DOMAIN acts} |->
        LET last == CHOOSE i \in DOMAIN acts :
                        /\ acts[i].name = n
                        /\ \A j \in DOMAIN acts : acts[j].name = n => j <= i
        IN  activity_to_dict(parts, acts[last])]

(* db.add(row); db.commit() *)
add(rows, row) == Append(rows, row)

(* db.delete(row); db.commit(): DELETE ... WHERE id = row.id.  A row that
   another session deleted meanwhile matches nothing. *)
delete(rows, row) == SelectSeq(rows, LAMBDA r : r.id # row.id)


----------------------------------------------------------------------------
(* app.py: responses.                                                      *)

HTTPException(status_code, detail) == [status_code |-> status_code, detail |-> detail]

NoResponse == [status_code |-> 0, detail |-> ""]

SignedUp == [status_code |-> 200, detail |-> "Signed up"]

Unregistered == [status_code |-> 200, detail |-> "Unregistered"]

(* GET /activities answers 200; its body is get_activities of the store. *)
Listed == [status_code |-> 200, detail |-> "activities"]

----------------------------------------------------------------------------
(* app.py signup_for_activity, lines 150-161: the lookups and the checks,  *)
(* in the order of the code.  NoResponse: every check passed.              *)

(* Variants of the checks: the cap compared with > ; no duplicate check;
   the duplicate check on the first participant only; the capacity check
   before the duplicate check. *)
signup_checks_off_by_one(acts, parts, activity_name, email) ==
    LET activity == find_activity(acts, activity_name)
        members  == activity_participants(parts, activity.id)
    IN  IF activity = None
        THEN HTTPException(404, "Activity not found")
        ELSE IF \E i \in DOMAIN members : members[i].email = email
        THEN HTTPException(400, "Student is already signed up")
        ELSE IF activity.max_participants # 0
                /\ Len(members) > activity.max_participants
        THEN HTTPException(400, "Activity is full")
        ELSE NoResponse

signup_checks_zero_is_full(acts, parts, activity_name, email) ==
    LET activity == find_activity(acts, activity_name)
        members  == activity_participants(parts, activity.id)
    IN  IF activity = None
        THEN HTTPException(404, "Activity not found")
        ELSE IF \E i \in DOMAIN members : members[i].email = email
        THEN HTTPException(400, "Student is already signed up")
        ELSE IF Len(members) >= activity.max_participants
        THEN HTTPException(400, "Activity is full")
        ELSE NoResponse

signup_checks_no_duplicate_check(acts, parts, activity_name, email) ==
    LET activity == find_activity(acts, activity_name)
        members  == activity_participants(parts, activity.id)
    IN  IF activity = None
        THEN HTTPException(404, "Activity not found")
        ELSE IF activity.max_participants # 0
                /\ Len(members) >= activity.max_participants
        THEN HTTPException(400, "Activity is full")
        ELSE NoResponse

signup_checks_first_only(acts, parts, activity_name, email) ==
    LET activity == find_activity(acts, activity_name)
        members  == activity_participants(parts, activity.id)
    IN  IF activity = None
        THEN HTTPException(404, "Activity not found")
        ELSE IF members # <<>> /\ members[1].email = email
        THEN HTTPException(400, "Student is already signed up")
        ELSE IF activity.max_participants # 0
                /\ Len(members) >= activity.max_participants
        THEN HTTPException(400, "Activity is full")
        ELSE NoResponse

signup_checks_capacity_first(acts, parts, activity_name, email) ==
    LET activity == find_activity(acts, activity_name)
        members  == activity_participants(parts, activity.id)
    IN  IF activity = None
        THEN HTTPException(404, "Activity not found")
        ELSE IF activity.max_participants # 0
                /\ Len(members) >= activity.max_participants
        THEN HTTPException(400, "Activity is full")
        ELSE IF \E i \in DOMAIN members : members[i].email = email
        THEN HTTPException(400, "Student is already signed up")
        ELSE NoResponse

signup_checks(acts, parts, activity_name, email) ==
    LET activity == find_activity(acts, activity_name)
        members  == activity_participants(parts, activity.id)
    IN  IF activity = None
        THEN HTTPException(404, "Activity not found")
        ELSE IF \E i \in DOMAIN members : members[i].email = email
        THEN HTTPException(400, "Student is already signed up")
        ELSE IF activity.max_participants # 0
                /\ Len(members) >= activity.max_participants
        THEN HTTPException(400, "Activity is full")
        ELSE NoResponse

(* Variants of the row: the id of the first activity of the table; no
   activity_id at all (the column is nullable). *)
signup_row_first_activity(acts, activity_name, email) ==
    Participant(0, email, Head(acts).id)

signup_row_no_activity(acts, activity_name, email) ==
    Participant(0, email, 0)

(* lines 163-165: the row of db.add, and the table after db.commit. *)
signup_row(acts, activity_name, email) ==
    Participant(0, email, find_activity(acts, activity_name).id)

signup_commit(parts, row) ==
    add(parts, Participant(NextId(parts), row.email, row.activity_id))

(* Variant: no check that the student is signed up. *)
unregister_checks_no_membership_check(acts, parts, activity_name, email) ==
    IF find_activity(acts, activity_name) = None
    THEN HTTPException(404, "Activity not found")
    ELSE NoResponse

(* app.py unregister_from_activity, lines 172-178. *)
unregister_checks(acts, parts, activity_name, email) ==
    LET activity == find_activity(acts, activity_name)
    IN  IF activity = None
        THEN HTTPException(404, "Activity not found")
        ELSE IF find_participant(parts, activity.id, email) = None
        THEN HTTPException(400, "Student is not signed up for this activity")
        ELSE NoResponse

(* line 176: the row db.delete is given. *)
unregister_row(acts, parts, activity_name, email) ==
    find_participant(parts, find_activity(acts, activity_name).id, email)

(* Variant: DELETE ... WHERE email = row.email. *)
unregister_commit_by_email(parts, row) ==
    SelectSeq(parts, LAMBDA r : r.email # row.email)

(* lines 180-181 *)
unregister_commit(parts, row) == delete(parts, row)

(* A whole call on one session with no other session in between: the
   response and the participants table it leaves. *)
signup_for_activity(acts, parts, activity_name, email) ==
    LET failed == signup_checks(acts, parts, activity_name, email)
    IN  IF failed # NoResponse
        THEN [response |-> failed, participants |-> parts]
        ELSE [response |-> SignedUp,
              participants |->
                  signup_commit(parts, signup_row(acts, activity_name, email))]

unregister_from_activity(acts, parts, activity_name, email) ==
    LET failed == unregister_checks(acts, parts, activity_name, email)
    IN  IF failed # NoResponse
        THEN [response |-> failed, participants |-> parts]
        ELSE [response |-> Unregistered,
              participants |->
                  unregister_commit(parts,
                      unregister_row(acts, parts, activity_name, email))]

----------------------------------------------------------------------------
(* app.py on_startup, lines 107-118: the rows the seeding transaction      *)
(* writes, fixture by fixture.                                             *)

RECURSIVE add_all(_, _, _)
add_all(parts, emails, activity_id) ==
    IF emails = <<>> THEN parts
    ELSE add_all(add(parts, Participant(NextId(parts), Head(emails), activity_id)),
                 Tail(emails), activity_id)

RECURSIVE seed(_, _, _)
seed(acts, parts, fixtures) ==
    IF fixtures = <<>> THEN [activities |-> acts, participants |-> parts]
    ELSE LET act == Activity(NextId(acts), Head(fixtures))
         IN  seed(add(acts, act),
                  add_all(parts, Head(fixtures).participants, act.id),
                  Tail(fixtures))

(* Variant: a name column with no unique index accepts any rows. *)
name_unique_not_enforced(acts) ==
    TRUE

(* models.py line 9: name is unique.  The rows violate it when two of them
   share a name. *)
name_unique(acts) ==
    \A i, j \in DOMAIN acts : acts[i].name = acts[j].name => i = j

----------------------------------------------------------------------------
(* State.                                                                  *)

(* A process with no request in flight holds no session. *)
Idle ==
    [pc |-> "idle", op |-> "none", activity_name |-> "", email |-> "",
     row |-> None, response |-> NoResponse]

(* A fresh store, every process down. *)
Init ==
    /\ activities = <<>>
    /\ participants = <<>>
    /\ proc = [p \in Procs |-> "down"]
    /\ session = [p \in Procs |-> Idle]

----------------------------------------------------------------------------
(* on_startup.  The count of line 105, the loop of lines 107-117 and the   *)
(* commit of line 118 are steps of their own: another process may commit   *)
(* between them.  What the loop adds and flushes stays in the open         *)
(* transaction of its session until the commit.                            *)

(* A process that is not running: never started or stopped ("down"), or its
   startup raised ("failed", "integrity_error"). *)
NotRunning == {"down", "failed", "integrity_error"}

(* Variant: no count, every startup seeds. *)
StartupCount_always_seeds(p) ==
    /\ proc[p] \in NotRunning
    /\ proc' = [proc EXCEPT ![p] = "seeding"]
    /\ UNCHANGED <<activities, participants, session>>

(* lines 103-106: count the activities; seed only an empty table. *)
StartupCount(p) ==
    /\ proc[p] \in NotRunning
    /\ proc' = [proc EXCEPT ![p] = IF Len(activities) = 0 THEN "seeding" ELSE "skipped"]
    /\ UNCHANGED <<activities, participants, session>>

(* lines 119-120 after a count that was not 0: db.close(), nothing written. *)
StartupSkip(p) ==
    /\ proc[p] = "skipped"
    /\ proc' = [proc EXCEPT ![p] = "up"]
    /\ UNCHANGED <<activities, participants, session>>

(* lines 107-117: the loop adds and flushes the rows of the fixtures; the
   committed tables do not have them yet. *)
StartupFlush(p) ==
    /\ proc[p] = "seeding"
    /\ proc' = [proc EXCEPT ![p] = "flushed"]
    /\ UNCHANGED <<activities, participants, session>>

(* Variant: every flush of the loop commits, so a startup that fails after
   k fixtures leaves them in the store. *)
StartupFail_keeps_flushed(p) ==
    /\ proc[p] = "flushed"
    /\ proc' = [proc EXCEPT ![p] = "failed"]
    /\ \E k \in 1..Len(initial_activities) :
           LET partly == seed(activities, participants, SubSeq(initial_activities, 1, k))
           IN  /\ name_unique(partly.activities)
               /\ activities' = partly.activities
               /\ participants' = partly.participants
    /\ UNCHANGED session

(* lines 104, 119-120: the startup raises before line 118 (the store or the
   process fails part-way): db.close() rolls the open transaction back. *)
StartupFail(p) ==
    /\ proc[p] \in {"seeding", "flushed"}
    /\ proc' = [proc EXCEPT ![p] = "failed"]
    /\ UNCHANGED <<activities, participants, session>>

(* line 118: db.commit() writes what the loop flushed.  Rows that break the
   unique name raise IntegrityError: nothing is written, the session is
   closed and the startup fails. *)
StartupSeed(p) ==
    /\ proc[p] = "flushed"
    /\ LET seeded == seed(activities, participants, initial_activities)
       IN  IF name_unique(seeded.activities)
           THEN /\ activities' = seeded.activities
                /\ participants' = seeded.participants
                /\ proc' = [proc EXCEPT ![p] = "up"]
           ELSE /\ proc' = [proc EXCEPT ![p] = "integrity_error"]
                /\ UNCHANGED <<activities, participants>>
    /\ UNCHANGED session

(* The process ends; it can be started again on the same store. *)
Stop(p) ==
    /\ proc[p] = "up"
    /\ session[p].pc = "idle"
    /\ proc' = [proc EXCEPT ![p] = "down"]
    /\ UNCHANGED <<activities, participants, session>>

----------------------------------------------------------------------------
(* Requests.  get_db opens the session; the handler runs its lookups and   *)
(* checks on what is committed; db.commit() writes; get_db closes.         *)

(* Variant: the record is committed before the capacity check. *)
SignupBegin_writes_before_check(p, activity_name, email) ==
    /\ proc[p] = "up"
    /\ session[p].pc = "idle"
    /\ LET failed == signup_checks(activities, participants, activity_name, email)
       IN  /\ session' = [session EXCEPT ![p] =
                  [pc |-> IF failed = NoResponse THEN "pending" ELSE "responded",
                   op |-> "signup", activity_name |-> activity_name, email |-> email,
                   row |-> IF failed = NoResponse
                           THEN signup_row(activities, activity_name, email)
                           ELSE None,
                   response |-> failed]]
           /\ participants' =
                  IF failed = HTTPException(400, "Activity is full")
                  THEN signup_commit(participants,
                                     signup_row(activities, activity_name, email))
                  ELSE participants
    /\ UNCHANGED <<activities, proc>>

(* signup_for_activity, lines 148-164: up to db.add. *)
SignupBegin(p, activity_name, email) ==
    /\ proc[p] = "up"
    /\ session[p].pc = "idle"
    /\ LET failed == signup_checks(activities, participants, activity_name, email)
       IN  session' = [session EXCEPT ![p] =
               [pc |-> IF failed = NoResponse THEN "pending" ELSE "responded",
                op |-> "signup", activity_name |-> activity_name, email |-> email,
                row |-> IF failed = NoResponse
                        THEN signup_row(activities, activity_name, email)
                        ELSE None,
                response |-> failed]]
    /\ UNCHANGED <<activities, participants, proc>>

(* Variant: the commit holds a lock and checks the capacity again. *)
SignupCommit_rechecks(p) ==
    /\ session[p].pc = "pending"
    /\ session[p].op = "signup"
    /\ NextId(participants) <= SettledId(participants) + MaxNew
    /\ LET failed == signup_checks(activities, participants,
                                   session[p].activity_name, session[p].email)
       IN  IF failed = NoResponse
           THEN /\ participants' = signup_commit(participants, session[p].row)
                /\ session' = [session EXCEPT ![p].pc = "responded",
                                              ![p].response = SignedUp]
           ELSE /\ participants' = participants
                /\ session' = [session EXCEPT ![p].pc = "responded",
                                              ![p].response = failed]
    /\ UNCHANGED <<activities, proc>>

(* signup_for_activity, lines 165-167: db.commit() and the response. *)
SignupCommit(p) ==
    /\ session[p].pc = "pending"
    /\ session[p].op = "signup"
    /\ NextId(participants) <= SettledId(participants) + MaxNew
    /\ participants' = signup_commit(participants, session[p].row)
    /\ session' = [session EXCEPT ![p].pc = "responded", ![p].response = SignedUp]
    /\ UNCHANGED <<activities, proc>>

(* unregister_from_activity, lines 170-180: up to db.delete. *)
UnregisterBegin(p, activity_name, email) ==
    /\ proc[p] = "up"
    /\ session[p].pc = "idle"
    /\ LET failed == unregister_checks(activities, participants, activity_name, email)
       IN  session' = [session EXCEPT ![p] =
               [pc |-> IF failed = NoResponse THEN "pending" ELSE "responded",
                op |-> "unregister", activity_name |-> activity_name, email |-> email,
                row |-> IF failed = NoResponse
                        THEN unregister_row(activities, participants, activity_name, email)
                        ELSE None,
                response |-> failed]]
    /\ UNCHANGED <<activities, participants, proc>>

(* unregister_from_activity, lines 181-182: db.commit() and the response. *)
UnregisterCommit(p) ==
    /\ session[p].pc = "pending"
    /\ session[p].op = "unregister"
    /\ participants' = unregister_commit(participants, session[p].row)
    /\ session' = [session EXCEPT ![p].pc = "responded", ![p].response = Unregistered]
    /\ UNCHANGED <<activities, proc>>

(* get_activities, lines 139-145: one read of both tables.  The body,
   get_activities(activities, participants) at this step, is returned and
   not kept. *)
GetActivities(p) ==
    /\ proc[p] = "up"
    /\ session[p].pc = "idle"
    /\ session' = [session EXCEPT ![p] =
           [pc |-> "responded", op |-> "list", activity_name |-> "", email |-> "",
            row |-> None, response |-> Listed]]
    /\ UNCHANGED <<activities, participants, proc>>

(* Variant: a get_db without try/finally closes after a return only. *)
Close_after_return_only(p) ==
    /\ session[p].pc = "responded"
    /\ session[p].response.status_code = 200
    /\ session' = [session EXCEPT ![p] = Idle]
    /\ UNCHANGED <<activities, participants, proc>>

(* get_db, lines 34-35: the response is out, the session is closed. *)
Close(p) ==
    /\ session[p].pc = "responded"
    /\ session' = [session EXCEPT ![p] = Idle]
    /\ UNCHANGED <<activities, participants, proc>>

(* BatchSize signup calls for BatchActivity, one after the other, by
   students outside Emails, with no other request in flight: the rosters
   near the cap are reached without enumerating every order of arrival. *)
RECURSIVE signup_all(_, _, _, _)
signup_all(acts, parts, activity_name, emails) ==
    IF emails = <<>> THEN parts
    ELSE signup_all(acts,
                    signup_for_activity(acts, parts, activity_name, Head(emails)).participants,
                    activity_name, Tail(emails))

SignupBatch(p) ==
    /\ proc[p] = "up"
    /\ \A q \in Procs : session[q].pc = "idle"
    /\ participants = seed(<<>>, <<>>, initial_activities).participants
    /\ participants' = signup_all(activities, participants, BatchActivity,
                                  SubSeq(BatchEmails, 1, BatchSize))
    /\ UNCHANGED <<activities, proc, session>>

(* The same batch for the activity stored without a max_participants. *)
UncappedActivity == "Chess Club"

UncappedBatch(p) ==
    /\ proc[p] = "up"
    /\ \A q \in Procs : session[q].pc = "idle"
    /\ participants = seed(<<>>, <<>>, initial_activities).participants
    /\ participants' = signup_all(activities, participants, UncappedActivity,
                                  SubSeq(BatchEmails, 1, BatchSize))
    /\ UNCHANGED <<activities, proc, session>>

----------------------------------------------------------------------------
(* Specifications.                                                         *)

(* Sessions of the processes interleave at every step. *)
Next ==
    \/ \E p \in Procs : StartupCount(p)
    \/ \E p \in Procs : StartupFlush(p)
    \/ \E p \in Procs : StartupFail(p)
    \/ \E p \in Procs : StartupSeed(p)
    \/ \E p \in Procs : StartupSkip(p)
    \/ \E p \in Procs : Stop(p)
    \/ \E p \in Procs, n \in ActivityNames, e \in Emails : SignupBegin(p, n, e)
    \/ \E p \in Procs : SignupCommit(p)
    \/ \E p \in Procs, n \in ActivityNames, e \in Emails : UnregisterBegin(p, n, e)
    \/ \E p \in Procs : UnregisterCommit(p)
    \/ \E p \in Procs : GetActivities(p)
    \/ \E p \in Procs : Close(p)
    \/ \E p \in Procs : SignupBatch(p)

Spec == Init /\ [][Next]_vars

(* No other process is in the middle of a startup or of a request. *)
Quiet(p) ==
    \A q \in Procs \ {p} :
        proc[q] \in NotRunning \cup {"up"} /\ session[q].pc = "idle"

(* Every startup and every call runs to completion before the next starts. *)
SeqNext ==
    \/ \E p \in Procs : Quiet(p) /\ StartupCount(p)
    \/ \E p \in Procs : Quiet(p) /\ StartupFlush(p)
    \/ \E p \in Procs : Quiet(p) /\ StartupFail(p)
    \/ \E p \in Procs : Quiet(p) /\ StartupSeed(p)
    \/ \E p \in Procs : Quiet(p) /\ StartupSkip(p)
    \/ \E p \in Procs : Quiet(p) /\ Stop(p)
    \/ \E p \in Procs, n \in ActivityNames, e \in Emails : Quiet(p) /\ SignupBegin(p, n, e)
    \/ \E p \in Procs : Quiet(p) /\ SignupCommit(p)
    \/ \E p \in Procs, n \in ActivityNames, e \in Emails : Quiet(p) /\ UnregisterBegin(p, n, e)
    \/ \E p \in Procs : Quiet(p) /\ UnregisterCommit(p)
    \/ \E p \in Procs : Quiet(p) /\ GetActivities(p)
    \/ \E p \in Procs : Quiet(p) /\ Close(p)
    \/ \E p \in Procs : Quiet(p) /\ SignupBatch(p)

SeqSpec == Init /\ [][SeqNext]_vars

(* The interleaved sessions, where a handler that has returned or raised
   is followed by the finally block of get_db, and a db.delete is followed
   by its db.commit. *)
FairSpec ==
    /\ Init
    /\ [][Next]_vars
    /\ \A p \in Procs : WF_vars(Close(p)) /\ WF_vars(UnregisterCommit(p))

(* No other process is between the lookup and the commit of an unregister. *)
NoUnregisterInFlight(p) ==
    \A q \in Procs \ {p} :
        ~(session[q].pc = "pending" /\ session[q].op = "unregister")

(* Startups, signups and lists interleave at every step; an unregister
   commits the delete of the row it found before any other session moves. *)
UnregisterAloneNext ==
    \/ \E p \in Procs : NoUnregisterInFlight(p) /\ StartupCount(p)
    \/ \E p \in Procs : NoUnregisterInFlight(p) /\ StartupFlush(p)
    \/ \E p \in Procs : NoUnregisterInFlight(p) /\ StartupFail(p)
    \/ \E p \in Procs : NoUnregisterInFlight(p) /\ StartupSeed(p)
    \/ \E p \in Procs : NoUnregisterInFlight(p) /\ StartupSkip(p)
    \/ \E p \in Procs : NoUnregisterInFlight(p) /\ Stop(p)
    \/ \E p \in Procs, n \in ActivityNames, e \in Emails :
           NoUnregisterInFlight(p) /\ SignupBegin(p, n, e)
    \/ \E p \in Procs : NoUnregisterInFlight(p) /\ SignupCommit(p)
    \/ \E p \in Procs, n \in ActivityNames, e \in Emails :
           NoUnregisterInFlight(p) /\ UnregisterBegin(p, n, e)
    \/ \E p \in Procs : NoUnregisterInFlight(p) /\ UnregisterCommit(p)
    \/ \E p \in Procs : NoUnregisterInFlight(p) /\ GetActivities(p)
    \/ \E p \in Procs : NoUnregisterInFlight(p) /\ Close(p)
    \/ \E p \in Procs : NoUnregisterInFlight(p) /\ SignupBatch(p)

UnregisterAloneSpec == Init /\ [][UnregisterAloneNext]_vars

(* A table written with a fixture that has no "max_participants": line 112,
   meta.get("max_participants", 0), and models.py line 12, default=0. *)
uncapped_activities ==
    [initial_activities EXCEPT ![1].max_participants = 0]

(* The processes start on the store that holds that table; on_startup
   counts 9 activities and seeds nothing. *)
UncappedInit ==
    /\ activities = seed(<<>>, <<>>, uncapped_activities).activities
    /\ participants = seed(<<>>, <<>>, uncapped_activities).participants
    /\ proc = [p \in Procs |-> "down"]
    /\ session = [p \in Procs |-> Idle]

UncappedNext ==
    \/ \E p \in Procs : StartupCount(p)
    \/ \E p \in Procs : StartupSkip(p)
    \/ \E p \in Procs : Stop(p)
    \/ \E p \in Procs, n \in ActivityNames, e \in Emails : SignupBegin(p, n, e)
    \/ \E p \in Procs : SignupCommit(p)
    \/ \E p \in Procs, n \in ActivityNames, e \in Emails : UnregisterBegin(p, n, e)
    \/ \E p \in Procs : UnregisterCommit(p)
    \/ \E p \in Procs : GetActivities(p)
    \/ \E p \in Procs : Close(p)
    \/ \E p \in Procs : UncappedBatch(p)

UncappedSpec == UncappedInit /\ [][UncappedNext]_vars

----------------------------------------------------------------------------
(* What the claims observe.                                                *)

(* The emails GET /activities lists for the activity of that name. *)
Roster(activity_name) ==
    participant_emails(participants, find_activity(activities, activity_name).id)

Exists(activity_name) ==
    \E i \in DOMAIN activities : activities[i].name = activity_name

(* The number of participant records of the activity with that email. *)
Records(activity_name, email) ==
    Cardinality({i \in DOMAIN Roster(activity_name) : Roster(activity_name)[i] = email})

Registered(activity_name, email) == Records(activity_name, email) >= 1

Cap(activity_name) ==
    IF Exists(activity_name)
    THEN find_activity(activities, activity_name).max_participants
    ELSE 0

AlreadyRegistered == HTTPException(400, "Student is already signed up")

CapacityExceeded == HTTPException(400, "Activity is full")

NotFound == HTTPException(404, "Activity not found")

NotRegistered == HTTPException(400, "Student is not signed up for this activity")

(* The step in which process p takes up a call of op, and the step in which
   the call commits. *)
Begins(p, op) ==
    session[p].pc = "idle" /\ session'[p].pc # "idle" /\ session'[p].op = op

Commits(p, op) ==
    session[p].pc = "pending" /\ session[p].op = op /\ session'[p].pc = "responded"

(* Process p has answered a call of op on (activity_name, email) with r. *)
Answered(p, op, activity_name, email, r) ==
    /\ session[p].pc = "responded"
    /\ session[p].op = op
    /\ session[p].activity_name = activity_name
    /\ session[p].email = email
    /\ session[p].response = r

----------------------------------------------------------------------------
(* C1: with calls run one after the other, an activity with a positive
   max_participants never holds more participants than max_participants. *)
C1_CapNeverExceeded ==
    \A i \in DOMAIN activities :
        activities[i].max_participants > 0 =>
            Len(activity_participants(participants, activities[i].id))
                <= activities[i].max_participants

(* A signup that filled Math Club to its cap has just been answered. *)
C1_Witness ==
    /\ Len(Roster("Math Club")) = Cap("Math Club")
    /\ \E p \in Procs :
           Answered(p, "signup", "Math Club", "new@mergington.edu", SignedUp)

(* C2: with calls run one after the other, no activity holds two
   participant records with the same email; one email may be in several
   activities. *)
C2_NoDuplicateEmail ==
    \A i, j \in DOMAIN participants :
        /\ participants[i].activity_id = participants[j].activity_id
        /\ participants[i].email = participants[j].email
        => i = j

(* The same student is in two activities, the second by a signup. *)
C2_Witness ==
    /\ Registered("Math Club", "james@mergington.edu")
    /\ Registered("Chess Club", "james@mergington.edu")
    /\ \E p \in Procs :
           Answered(p, "signup", "Chess Club", "james@mergington.edu", SignedUp)

(* C3: a signup of (activity, email) that succeeds leaves exactly one record
   of the pair; the record stays, one, through every call that is not a
   successful unregister of the pair; and a signup of a pair with a record
   is answered 400 'Student is already signed up' and writes nothing. *)
C3_SecondSignupRejected ==
    [][\A n \in ActivityNames, e \in Emails :
          /\ \A p \in Procs :
                 (session'[p].activity_name = n /\ session'[p].email = e) =>
                     /\ Commits(p, "signup") => Records(n, e)' = 1
                     /\ (Begins(p, "signup") /\ Records(n, e) = 1)
                            => /\ session'[p].pc = "responded"
                               /\ session'[p].response = AlreadyRegistered
                               /\ Records(n, e)' = 1
          /\ (/\ Records(n, e) = 1
              /\ ~\E q \in Procs : /\ Commits(q, "unregister")
                                   /\ session[q].activity_name = n
                                   /\ session[q].email = e)
                 => Records(n, e)' = 1
      ]_vars

(* The second signup of a student who was not in the fixtures is rejected. *)
C3_Witness ==
    /\ \E p \in Procs :
           Answered(p, "signup", "Chess Club", "new@mergington.edu", AlreadyRegistered)
    /\ Records("Chess Club", "new@mergington.edu") = 1

(* C4: signup reports the first check that fails, in the order unknown
   activity (404), email already in the activity (400 already signed up),
   positive cap reached (400 full); a member signing up to a full activity
   is told 'already signed up'. *)
C4_CheckOrder ==
    [][\A p \in Procs, n \in ActivityNames, e \in Emails :
          (/\ Begins(p, "signup")
           /\ session'[p].activity_name = n
           /\ session'[p].email = e)
              => IF ~Exists(n)
                     THEN session'[p].response = NotFound
                 ELSE IF Registered(n, e)
                     THEN session'[p].response = AlreadyRegistered
                 ELSE IF Cap(n) > 0 /\ Len(Roster(n)) >= Cap(n)
                     THEN session'[p].response = CapacityExceeded
                 ELSE session'[p].pc = "pending"
      ]_vars

(* A member of a full activity has signed up again and was told so. *)
C4_Witness ==
    /\ Len(Roster("Math Club")) >= Cap("Math Club")
    /\ \E p \in Procs :
           Answered(p, "signup", "Math Club", "james@mergington.edu", AlreadyRegistered)

(* C5: no call is a silent no-op.  A signup that succeeds adds exactly one
   record (email, activity) and takes the pair from not registered to
   registered; an unregister that succeeds takes it from registered to not
   registered; unregister answers 404 for an unknown activity and 400
   'Student is not signed up for this activity' for a pair with no record;
   a call answers 200 only if it changed the store, and every other answer
   is one of the four documented failures. *)
C5_NoSilentNoOp ==
    [][\A p \in Procs, n \in ActivityNames, e \in Emails :
          (session'[p].activity_name = n /\ session'[p].email = e) =>
              /\ Commits(p, "signup") =>
                     /\ session'[p].response = SignedUp
                     /\ ~Registered(n, e) /\ Registered(n, e)'
                     /\ Roster(n)' = Append(Roster(n), e)
                     /\ Len(participants') = Len(participants) + 1
              /\ Commits(p, "unregister") =>
                     /\ session'[p].response = Unregistered
                     /\ Registered(n, e) /\ ~Registered(n, e)'
              /\ Begins(p, "unregister") =>
                     IF ~Exists(n) THEN session'[p].response = NotFound
                     ELSE IF ~Registered(n, e) THEN session'[p].response = NotRegistered
                     ELSE session'[p].pc = "pending"
              /\ (session[p].pc # "responded" /\ session'[p].pc = "responded") =>
                     \/ /\ session'[p].response.status_code = 200
                        /\ participants' # participants
                     \/ session'[p].response \in
                            {NotFound, AlreadyRegistered, CapacityExceeded, NotRegistered}
      ]_vars

(* A student who joined by signup has left by unregister. *)
C5_Witness ==
    /\ ~Registered("Chess Club", "new@mergington.edu")
    /\ \E p \in Procs :
           Answered(p, "unregister", "Chess Club", "new@mergington.edu", Unregistered)

(* C6: a call that fails with NotFound, AlreadyRegistered, CapacityExceeded
   or NotRegistered fails before any write: the step that answers it leaves
   both tables as they were, and the call had written nothing before. *)
C6_FailureWritesNothing ==
    [][\A p \in Procs :
          (/\ session'[p].pc = "responded"
           /\ session[p].pc # "responded"
           /\ session'[p].response \in
                  {NotFound, AlreadyRegistered, CapacityExceeded, NotRegistered})
              => /\ session[p].pc = "idle"
                 /\ activities' = activities
                 /\ participants' = participants
      ]_vars

(* A signup to a full activity has been refused. *)
C6_Witness ==
    \E p \in Procs :
        Answered(p, "signup", "Math Club", "new@mergington.edu", CapacityExceeded)

(* C7: in every store, a signup that succeeds followed at once by the
   unregister of the same (activity, email) succeeds too and gives every
   activity the participant list, in order, it had before the signup. *)
C7_SignupThenUnregister ==
    \A n \in ActivityNames, e \in Emails :
        LET s == signup_for_activity(activities, participants, n, e)
            u == unregister_from_activity(activities, s.participants, n, e)
        IN  s.response = SignedUp =>
                /\ u.response = Unregistered
                /\ \A i \in DOMAIN activities :
                       participant_emails(u.participants, activities[i].id)
                           = participant_emails(participants, activities[i].id)

(* A student who is in another activity too can sign up to Math Club, which
   he has just left and which holds the students of the earlier signups. *)
C7_Witness ==
    /\ Registered("Chess Club", "james@mergington.edu")
    /\ Len(Roster("Math Club")) > 2
    /\ signup_for_activity(activities, participants, "Math Club",
                           "james@mergington.edu").response = SignedUp
    /\ \E p \in Procs :
           Answered(p, "unregister", "Math Club", "james@mergington.edu", Unregistered)

(* C8: with startups and calls run one after the other, a startup on a
   store that holds an activity writes nothing and never seeds, so the
   store holds no activity or the 9 of the fixtures, and once 9 always 9. *)
C8_SeedOnlyEmptyStore ==
    [][/\ \A p \in Procs :
              (proc[p] # "up" /\ proc'[p] # proc[p] /\ activities # <<>>) =>
                  /\ proc'[p] \in {"skipped", "up"}
                  /\ activities' = activities
                  /\ participants' = participants
       /\ Len(activities) \in {0, 9}
       /\ Len(activities) = 9 => Len(activities') = 9
      ]_vars

(* A startup has found a store from which a fixture student has been
   unregistered and to which a new one has signed up. *)
C8_Witness ==
    /\ \E p \in Procs : proc[p] = "skipped"
    /\ ~Registered("Math Club", "james@mergington.edu")
    /\ Registered("Chess Club", "new@mergington.edu")
    /\ Len(activities) = 9

(* C9: nothing stands between a signup's capacity check and its commit:
   the commit of a signup that passed its checks always adds its record and
   answers 200, whatever has been committed since, so two signups that both
   passed at cap - 1 leave the activity at cap + 1. *)
C9_CommitAfterCheckAlwaysWrites ==
    [][\A p \in Procs, n \in ActivityNames :
          (Commits(p, "signup") /\ session[p].activity_name = n) =>
              /\ session'[p].response = SignedUp
              /\ Len(Roster(n))' = Len(Roster(n)) + 1
      ]_vars

(* Two signups of distinct students have both succeeded and Math Club is
   one over its cap. *)
C9_Witness ==
    /\ Len(Roster("Math Club")) = Cap("Math Club") + 1
    /\ \E p, q \in Procs :
           /\ Answered(p, "signup", "Math Club", "james@mergington.edu", SignedUp)
           /\ Answered(q, "signup", "Math Club", "new@mergington.edu", SignedUp)

(* C10: with sessions interleaved, an activity never holds two participant
   records with the same email (the store would refuse the second insert). *)
C10_RaceNeverDuplicates ==
    \A n \in ActivityNames, e \in Emails : Records(n, e) <= 1

----------------------------------------------------------------------------
(* C11: no step of a signup, unregister or list call writes the activities
   table; a signup or unregister call on one activity leaves the
   participant list of every other activity as it was; a list call changes
   nothing but its own session. *)
C11_RequestsFrame ==
    [][/\ session' # session => activities' = activities
       /\ \A p \in Procs, n \in ActivityNames :
              (/\ session'[p] # session[p]
               /\ session[p].activity_name = n \/ session'[p].activity_name = n)
                  => \A i \in DOMAIN activities :
                         activities[i].name # n =>
                             participant_emails(participants', activities[i].id)
                                 = participant_emails(participants, activities[i].id)
       /\ \A p \in Procs :
              (session'[p] # session[p] /\ "list" \in {session[p].op, session'[p].op})
                  => /\ participants' = participants
                     /\ proc' = proc
                     /\ \A q \in Procs \ {p} : session'[q] = session[q]
      ]_vars

(* A student of two activities has been unregistered from one of them and
   is still in the other, and the other process has answered a list. *)
C11_Witness ==
    /\ Registered("Math Club", "james@mergington.edu")
    /\ ~Registered("Chess Club", "james@mergington.edu")
    /\ \E p, q \in Procs :
           /\ Answered(p, "unregister", "Chess Club", "james@mergington.edu", Unregistered)
           /\ session[q].pc = "responded" /\ session[q].op = "list"

----------------------------------------------------------------------------
(* C12: no two stored activities share a name, also when both processes
   have passed the count == 0 check on the empty store: the seeding
   transaction commits only on the empty store and leaves exactly the 9
   fixture activities, each with its fixture participants once; the seeding
   that finds the store filled fails, writes nothing, and its process
   does not come up; a filled store keeps its 9 activities. *)
StoreIsFixtures(acts, parts) ==
    /\ Len(acts) = Len(initial_activities)
    /\ \A i \in DOMAIN initial_activities :
           /\ acts[i].name = initial_activities[i].name
           /\ participant_emails(parts, acts[i].id) = initial_activities[i].participants
    /\ Len(parts) = 2 * Len(initial_activities)

C12_NamesUnique ==
    [][/\ \A i, j \in DOMAIN activities' :
              activities'[i].name = activities'[j].name => i = j
       /\ \A p \in Procs :
              (proc[p] = "flushed" /\ proc'[p] = "up")
                  => /\ activities = <<>>
                     /\ StoreIsFixtures(activities', participants')
       /\ \A p \in Procs :
              (proc[p] = "flushed" /\ proc'[p] # "flushed" /\ activities # <<>>)
                  => /\ proc'[p] \in {"integrity_error", "failed"}
                     /\ activities' = activities
                     /\ participants' = participants
       /\ activities # <<>> => activities' = activities
      ]_vars

(* Both processes counted zero activities; one committed its seeding and
   the other's commit was refused. *)
C12_Witness ==
    \E p, q \in Procs :
        /\ proc[p] = "up"
        /\ proc[q] = "integrity_error"
        /\ Len(activities) = Len(initial_activities)
        /\ \A i, j \in DOMAIN activities :
               activities[i].name = activities[j].name => i = j

----------------------------------------------------------------------------
(* C13: every participant record carries the id of exactly one stored
   activity, in every state reached by seeding, signups and unregisters. *)
C13_NoOrphanParticipant ==
    \A i \in DOMAIN participants :
        Cardinality({j \in DOMAIN activities :
                        activities[j].id = participants[i].activity_id}) = 1

(* A signup has committed a record and an unregister has deleted one. *)
C13_Witness ==
    /\ \E p \in Procs, n \in ActivityNames, e \in Emails :
           Answered(p, "signup", n, e, SignedUp)
    /\ \E p \in Procs, n \in ActivityNames, e \in Emails :
           Answered(p, "unregister", n, e, Unregistered)
    /\ Len(participants) > 2 * Len(initial_activities)

----------------------------------------------------------------------------
(* C14: for a stored activity whose max_participants is 0, no signup call
   is answered "Activity is full", whatever the number of its participants;
   a call for an email the activity does not hold passes the checks, and its
   commit answers 200 and adds the record. *)
C14_ZeroMeansUncapped ==
    [][\A p \in Procs, n \in ActivityNames, e \in Emails :
           (/\ Exists(n) /\ Cap(n) = 0
            /\ session'[p].activity_name = n /\ session'[p].email = e)
               => /\ Begins(p, "signup")
                      => /\ session'[p].response # CapacityExceeded
                         /\ ~Registered(n, e) => session'[p].pc = "pending"
                  /\ Commits(p, "signup")
                      => /\ session'[p].response = SignedUp
                         /\ Len(participant_emails(participants',
                                                   find_activity(activities, n).id))
                                = Len(Roster(n)) + 1
      ]_vars

(* The activity without a cap holds more participants than any fixture but
   one allows, and the last signup for it has been answered 200. *)
C14_Witness ==
    /\ Cap(UncappedActivity) = 0
    /\ Len(Roster(UncappedActivity)) > 2 + BatchSize
    /\ \E p \in Procs, e \in Emails :
           /\ Answered(p, "signup", UncappedActivity, e, SignedUp)
           /\ Roster(UncappedActivity)[Len(Roster(UncappedActivity))] = e

----------------------------------------------------------------------------
(* C15: the committed store holds no row at all or the 9 fixture
   activities; the step that fills it writes all 9 with their full
   participant lists at once; a startup that fails while seeding writes
   nothing, so the store it found empty stays empty; and a startup on the
   empty store, after a failed one too, seeds again. *)
C15_SeedingAtomic ==
    [][/\ \/ activities' = <<>> /\ participants' = <<>>
          \/ /\ Len(activities') = Len(initial_activities)
             /\ \A i \in DOMAIN initial_activities :
                    activities'[i] = Activity(i, initial_activities[i])
       /\ (activities = <<>> /\ activities' # <<>>)
              => \A i \in DOMAIN initial_activities :
                     participant_emails(participants', i)
                         = initial_activities[i].participants
       /\ \A p \in Procs :
              (proc[p] \in {"seeding", "flushed"} /\ proc'[p] = "failed")
                  => /\ activities' = activities /\ participants' = participants
                     /\ activities = <<>> => activities' = <<>> /\ participants' = <<>>
       /\ \A p \in Procs :
              (proc[p] \in {"down", "failed", "integrity_error"}
                  /\ proc'[p] # proc[p] /\ activities = <<>>)
                  => proc'[p] = "seeding"
      ]_vars

(* One startup failed while seeding and left nothing; the next startup
   has committed the whole table. *)
C15_Witness ==
    \E p, q \in Procs :
        /\ proc[p] = "failed"
        /\ proc[q] = "up"
        /\ StoreIsFixtures(activities, participants)

----------------------------------------------------------------------------
(* C16: a list call is answered 200 at once; its mapping has exactly the
   stored names as keys, one per stored activity (none for the empty
   store), each with the description, schedule and max_participants of its
   activity and the emails of exactly that activity's records, earlier
   record first; after a signup answered 200 the new email is the last of
   its activity's list. *)
RecordsOf(activity_id) ==
    {i \in DOMAIN participants : participants[i].activity_id = activity_id}

C16_ListIsTheStore ==
    [][/\ DOMAIN get_activities(<<>>, <<>>) = {}
       /\ \A p \in Procs :
              Begins(p, "list")
                  => /\ session'[p].pc = "responded"
                     /\ session'[p].response.status_code = 200
                     /\ LET body == get_activities(activities, participants)
                        IN  /\ DOMAIN body = {activities[i].name : i \in DOMAIN activities}
                            /\ Cardinality(DOMAIN body) = Len(activities)
                            /\ \A i \in DOMAIN activities :
                                   LET a     == activities[i]
                                       entry == body[a.name]
                                   IN  /\ entry.description = a.description
                                       /\ entry.schedule = a.schedule
                                       /\ entry.max_participants = a.max_participants
                                       /\ Len(entry.participants)
                                              = Cardinality(RecordsOf(a.id))
                                       /\ \A r \in RecordsOf(a.id) :
                                              entry.participants[
                                                  1 + Cardinality(
                                                      {o \in RecordsOf(a.id) :
                                                          participants[o].id
                                                              < participants[r].id})]
                                                  = participants[r].email
       /\ \A p \in Procs, n \in ActivityNames, e \in Emails :
              (/\ Commits(p, "signup")
               /\ session'[p].activity_name = n /\ session'[p].email = e
               /\ session'[p].response = SignedUp)
                  => LET emails == get_activities(activities', participants')[n].participants
                     IN  /\ emails # <<>>
                         /\ emails[Len(emails)] = e
      ]_vars

(* One process has answered a list while the last record of Chess Club is
   the one the other process's signup has added. *)
C16_Witness ==
    \E p, q \in Procs :
        /\ session[p].pc = "responded" /\ session[p].op = "list"
        /\ session[p].response = Listed
        /\ Answered(q, "signup", "Chess Club", "new@mergington.edu", SignedUp)
        /\ get_activities(activities, participants)["Chess Club"].participants
               = <<"michael@mergington.edu", "daniel@mergington.edu",
                   "new@mergington.edu">>

----------------------------------------------------------------------------
(* C17: a process holds at most one session, the one of the call it is
   handling; every call that has returned or raised, whatever its answer,
   is followed by the close of its session, and so is every unregister
   that has passed its checks; the close writes nothing and leaves the
   process with no session, no pending row and no call. *)
C17_HoldsSession(p) == session[p].pc # "idle"

C17_SessionAlwaysReleased ==
    /\ \A p \in Procs :
           (session[p].pc = "responded") ~> ~C17_HoldsSession(p)
    /\ \A p \in Procs :
           (session[p].pc = "pending" /\ session[p].op = "unregister")
               ~> ~C17_HoldsSession(p)
    /\ [][\A p \in Procs :
              /\ (session[p].pc = "responded" /\ session'[p] # session[p])
                     => /\ session'[p] = Idle
                        /\ activities' = activities
                        /\ participants' = participants
              /\ ~C17_HoldsSession(p)
                     => /\ session[p].row = None
                        /\ session[p].response = NoResponse
              /\ (proc[p] # "up" \/ proc'[p] # "up") => ~C17_HoldsSession(p)
         ]_vars

(* A signup has been refused for capacity and an unregister for an email
   that is not registered; both sessions are still open. *)
C17_Witness ==
    \E p, q \in Procs, n, m \in ActivityNames, e, f \in Emails :
        /\ Answered(p, "signup", n, e, CapacityExceeded)
        /\ Answered(q, "unregister", m, f, NotRegistered)

----------------------------------------------------------------------------
(* C18: the commit of an unregister answers 200 and deletes exactly one
   record: the table and the activity's list are one shorter and the pair
   has one record less; when the activity held the email more than once,
   the email is still listed and one more unregister call for the pair is
   answered 200 too. *)
C18_UnregisterDeletesOneRecord ==
    [][\A p \in Procs, n \in ActivityNames, e \in Emails :
           (/\ Commits(p, "unregister")
            /\ session[p].activity_name = n /\ session[p].email = e)
               => /\ session'[p].response = Unregistered
                  /\ Len(participants') = Len(participants) - 1
                  /\ Len(Roster(n)') = Len(Roster(n)) - 1
                  /\ Records(n, e)' = Records(n, e) - 1
                  /\ \A m \in ActivityNames, f \in Emails :
                         (m # n \/ f # e) => Records(m, f)' = Records(m, f)
                  /\ Records(n, e) >= 2
                         => /\ Registered(n, e)'
                            /\ unregister_from_activity(activities', participants',
                                                        n, e).response = Unregistered
      ]_vars

============================================================================
